---- MODULE Spec2Model ----
(***************************************************************************)
(* Civic Data Hub: the address lookup pipeline of src/src/api/main.py      *)
(* (geocode with cache, districts containing the point, officials of those *)
(* districts, bulk lookup) and the synchronisation run of                  *)
(* src/src/sync/core.py (status row, fetch, merge).                        *)
(*                                                                         *)
(* The persisted store is the tables the SQL statements name, each a set   *)
(* of rows.  Every awaited statement of a request handler is one step, so  *)
(* that concurrent requests interleave where the event loop lets them; in  *)
(* sync_all every awaited call is one step, a merge loop included.         *)
(* Strings that the code transforms (addresses) are sequences of character *)
(* codes; geometry values are the coordinates the text 'POINT(x y)' names. *)
(***************************************************************************)
EXTENDS Integers, Sequences, FiniteSets, TLC

VARIABLES
    now,            \* the store's clock (CURRENT_TIMESTAMP), in days
    address_cache,  \* table address_cache
    districts,      \* table districts
    officials,      \* table officials
    data_sources,   \* table data_sources
    req,            \* the lookup_representatives calls in flight, by slot
    bulk,           \* the bulk_lookup_representatives request
    sync,           \* the DataSync instances and their sync_all runs
    lastWrite,      \* history: per normalized address, the last cache write
    pool            \* app.state.pool: where each request stands with it

vars == <<now, address_cache, districts, officials, data_sources, req, bulk,
          sync, lastWrite, pool>>

-----------------------------------------------------------------------------
(* Bounds of the model *)

\* the clock advances in steps of TickDays, up to MaxTime
TickDays == 15
MaxTime == 45

\* the short address lists of a bulk request have up to MaxBulkLen addresses
MaxBulkLen == 2
\* a fetch delivers up to MaxFetched records
MaxFetched == 2
\* sync_all runs per DataSync instance
MaxRuns == 2
\* connections of app.state.pool; asyncpg.create_pool is called without
\* max_size, whose default is 10, and the model scales the pool and the
\* number of concurrent bulk requests down together
PoolSize == 2

(* Program constants *)

\* INTERVAL '30 days'
CACHE_TTL_DAYS == 30
\* addresses: List[str] = Query(..., max_length=100)
MAX_ADDRESSES == 100

-----------------------------------------------------------------------------
(* Addresses: "Ma", "ma", "El" as character codes *)

Addresses == { <<77, 97>>, <<109, 97>>, <<69, 108>> }

\* str.lower() on ASCII letters
Lower(s) == [i \in 1..Len(s) |-> IF s[i] \in 65..90 THEN s[i] + 32 ELSE s[i]]

NormalizedAddresses == { Lower(a) : a \in Addresses }

\* a handler that keys the cache on the raw address
RawAddressKey(address) == address

\* the cache key the handler computes: address.lower()
NormalizedAddress(address) == Lower(address)

(* Coordinates the geocoding provider may answer with: <<lat, lon>> *)
Points == { <<40, -74>>, <<41, -87>>, <<0, 0>> }

NoPoint == <<999, 999>>
NoLocation == [x |-> 999, y |-> 999]

\* f'POINT({lon} {lat})', as ST_GeomFromText reads it: x is the longitude
PointText(lat, lon) == [x |-> lon, y |-> lat]

(* What the provider does on one call of geocoder.geocode: a location, no  *)
(* match (None), GeocoderTimedOut, or any other exception                  *)
AnswersWith(points) ==
    [kind : {"location"}, point : points]
        \cup [kind : {"no_match", "timed_out", "failed"}, point : {NoPoint}]

ProviderAnswers == AnswersWith(Points)

\* a geocode_address that reports a provider timeout as "not found"
geocode_address_no_timeout(answer) ==
    IF answer.kind = "location"
    THEN [kind |-> "return", lat |-> answer.point[1], lon |-> answer.point[2],
          status |-> 0, detail |-> ""]
    ELSE [kind |-> "http", lat |-> 999, lon |-> 999,
          status |-> 404, detail |-> "Address not found"]

\* geocode_address: the point, or the exception that leaves the function
geocode_address(answer) ==
    CASE answer.kind = "location" ->
            [kind |-> "return", lat |-> answer.point[1], lon |-> answer.point[2],
             status |-> 0, detail |-> ""]
      [] answer.kind = "no_match" ->
            [kind |-> "http", lat |-> 999, lon |-> 999,
             status |-> 404, detail |-> "Address not found"]
      [] answer.kind = "timed_out" ->
            [kind |-> "http", lat |-> 999, lon |-> 999,
             status |-> 408, detail |-> "Geocoding service timeout"]
      [] OTHER ->
            [kind |-> "exception", lat |-> 999, lon |-> 999,
             status |-> 500, detail |-> "Invalid address"]

-----------------------------------------------------------------------------
(* The SQL statements of lookup_representatives *)

\* a cache read whose expiry bound is inclusive (expires_at >= now)
CacheSelectInclusive(cache, norm, ts) ==
    { row \in cache : row.normalized_address = norm /\ row.expires_at >= ts }

\* SELECT * FROM address_cache WHERE normalized_address = $1
\*   AND expires_at > CURRENT_TIMESTAMP
CacheSelect(cache, norm, ts) ==
    { row \in cache : row.normalized_address = norm /\ row.expires_at > ts }

\* a cache write without the ON CONFLICT clause's effect: always a new row
CacheInsertOnly(cache, address, norm, location, ts) ==
    cache \cup { [address |-> address, normalized_address |-> norm,
                  location |-> location, expires_at |-> ts + CACHE_TTL_DAYS] }

\* a cache write that keeps only points that lie in a stored district
CacheUpsertResolved(cache, address, norm, location, ts) ==
    IF ~\E d \in districts : location \in d.boundary
    THEN cache
    ELSE IF \E row \in cache : row.normalized_address = norm
    THEN { IF row.normalized_address = norm
           THEN [row EXCEPT !.location = location,
                            !.expires_at = ts + CACHE_TTL_DAYS]
           ELSE row : row \in cache }
    ELSE cache \cup { [address |-> address, normalized_address |-> norm,
                       location |-> location,
                       expires_at |-> ts + CACHE_TTL_DAYS] }

\* INSERT INTO address_cache ... ON CONFLICT (normalized_address)
\*   DO UPDATE SET location = EXCLUDED.location, expires_at = EXCLUDED.expires_at
CacheUpsert(cache, address, norm, location, ts) ==
    IF \E row \in cache : row.normalized_address = norm
    THEN { IF row.normalized_address = norm
           THEN [row EXCEPT !.location = location,
                            !.expires_at = ts + CACHE_TTL_DAYS]
           ELSE row : row \in cache }
    ELSE cache \cup { [address |-> address, normalized_address |-> norm,
                       location |-> location,
                       expires_at |-> ts + CACHE_TTL_DAYS] }

\* SELECT id, name, district_type, state_fips, district_code FROM districts
\*   WHERE ST_Contains(boundary, ST_GeomFromText($1, 4326))
DistrictsContaining(tbl, location) ==
    { [id |-> d.id, name |-> d.name, district_type |-> d.district_type,
       state_fips |-> d.state_fips, district_code |-> d.district_code]
        : d \in { e \in tbl : location \in e.boundary } }

\* an officials query that matches the official's own id against the districts
OfficialsById(tbl, ids) ==
    { [id |-> o.id, full_name |-> o.full_name, office_title |-> o.office_title,
       party |-> o.party, email |-> o.email, phone |-> o.phone,
       website |-> o.website]
        : o \in { p \in tbl : p.id \in ids } }

\* SELECT id, full_name, ... FROM officials WHERE district_id = ANY($1)
OfficialsOf(tbl, ids) ==
    { [id |-> o.id, full_name |-> o.full_name, office_title |-> o.office_title,
       party |-> o.party, email |-> o.email, phone |-> o.phone,
       website |-> o.website]
        : o \in { p \in tbl : p.district_id \in ids } }

-----------------------------------------------------------------------------
(* The stored scenario of the tests: "Test District" (HD-1) with official  *)
(* "John Doe" and a second official; a second district without officials.  *)

InitDistricts ==
    { [id |-> 1, district_type |-> "state_house", state_fips |-> "17",
       district_code |-> "HD-1", name |-> "Test District",
       boundary |-> { PointText(40, -74) }],
      [id |-> 2, district_type |-> "state_senate", state_fips |-> "17",
       district_code |-> "SD-1", name |-> "State Senate District 1",
       boundary |-> { PointText(40, -74), PointText(41, -87) }] }

InitOfficials ==
    { [id |-> 1, full_name |-> "John Doe", office_title |-> "State Representative",
       district_id |-> 1, party |-> "Independent", email |-> "john.doe@state.gov",
       phone |-> "555-0123", website |-> "https://doe.gov",
       term_start |-> "2023", term_end |-> "2027",
       source_type |-> "openstates", source_id |-> "1"],
      [id |-> 2, full_name |-> "Jane Roe", office_title |-> "State Representative",
       district_id |-> 1, party |-> "Independent", email |-> "jane.roe@state.gov",
       phone |-> "555-0124", website |-> "https://roe.gov",
       term_start |-> "2023", term_end |-> "2027",
       source_type |-> "openstates", source_id |-> "2"] }

-----------------------------------------------------------------------------
(* lookup_representatives, one call per slot *)

\* slot "bulk" is the call made by bulk_lookup_representatives; "r1" and "r2"
\* are requests to /api/v1/lookup
BulkSlot == "bulk"
Requests == {"r1", "r2"}
Slots == {BulkSlot} \cup Requests

IdleReq ==
    [pc |-> "idle", address |-> <<>>, hit |-> FALSE, called |-> FALSE,
     provider |-> "", raised |-> "",
     location |-> NoLocation, found |-> {}, status |-> 0, detail |-> "",
     result_districts |-> {}, result_officials |-> {}]

\* the request arrives with its address parameter
lookup_start(r, a) ==
    /\ req[r].pc = "idle"
    /\ req' = [req EXCEPT ![r] = [IdleReq EXCEPT !.pc = "cache", !.address = a]]
    /\ UNCHANGED <<now, address_cache, districts, officials, lastWrite>>
    /\ UNCHANGED <<bulk, data_sources, sync>>
    /\ UNCHANGED pool

\* a cache read that extends the entry it hits by another 30 days
lookup_check_cache_refreshing(r) ==
    /\ req[r].pc = "cache"
    /\ LET cached == CacheSelect(address_cache, NormalizedAddress(req[r].address), now)
       IN  IF cached # {}
           THEN /\ req' = [req EXCEPT ![r].pc = "districts", ![r].hit = TRUE,
                            ![r].location = (CHOOSE row \in cached : TRUE).location]
                /\ address_cache' =
                      CacheUpsert(address_cache, req[r].address,
                                  NormalizedAddress(req[r].address),
                                  (CHOOSE row \in cached : TRUE).location, now)
           ELSE /\ req' = [req EXCEPT ![r].pc = "geocode"]
                /\ UNCHANGED address_cache
    /\ UNCHANGED <<now, districts, officials, lastWrite>>
    /\ UNCHANGED <<bulk, data_sources, sync>>
    /\ UNCHANGED pool

\* fetchrow on address_cache; a row found is a hit
lookup_check_cache(r) ==
    /\ req[r].pc = "cache"
    /\ LET cached == CacheSelect(address_cache, NormalizedAddress(req[r].address), now)
       IN  IF cached # {}
           THEN req' = [req EXCEPT ![r].pc = "districts", ![r].hit = TRUE,
                            ![r].location = (CHOOSE row \in cached : TRUE).location]
           ELSE req' = [req EXCEPT ![r].pc = "geocode"]
    /\ UNCHANGED <<now, address_cache, districts, officials, lastWrite>>
    /\ UNCHANGED <<bulk, data_sources, sync>>
    /\ UNCHANGED pool

\* lat, lon = await geocode_address(address); location = f'POINT({lon} {lat})'
lookup_geocode(r, answer) ==
    /\ req[r].pc = "geocode"
    /\ LET g == geocode_address(answer)
       IN  IF g.kind = "return"
           THEN req' = [req EXCEPT ![r].pc = "insert", ![r].called = TRUE,
                            ![r].provider = answer.kind,
                            ![r].location = PointText(g.lat, g.lon)]
           ELSE req' = [req EXCEPT ![r].pc = "done", ![r].called = TRUE,
                            ![r].provider = answer.kind,
                            ![r].raised = g.kind,
                            ![r].status = g.status, ![r].detail = g.detail]
    /\ UNCHANGED <<now, address_cache, districts, officials, lastWrite>>
    /\ UNCHANGED <<bulk, data_sources, sync>>
    /\ UNCHANGED pool

\* the INSERT ... ON CONFLICT into address_cache
lookup_cache_result(r) ==
    /\ req[r].pc = "insert"
    /\ address_cache' = CacheUpsert(address_cache, req[r].address,
                                    NormalizedAddress(req[r].address),
                                    req[r].location, now)
    /\ lastWrite' = [lastWrite EXCEPT ![Lower(req[r].address)] =
                        [written |-> TRUE, location |-> req[r].location, at |-> now]]
    /\ req' = [req EXCEPT ![r].pc = "districts"]
    /\ UNCHANGED <<now, districts, officials, bulk, data_sources, sync>>
    /\ UNCHANGED pool

\* the districts query; no district raises 404
lookup_find_districts(r) ==
    /\ req[r].pc = "districts"
    /\ LET ds == DistrictsContaining(districts, req[r].location)
       IN  IF ds = {}
           THEN req' = [req EXCEPT ![r].pc = "done", ![r].status = 404,
                            ![r].raised = "http",
                            ![r].detail = "No districts found for this address"]
           ELSE req' = [req EXCEPT ![r].pc = "officials", ![r].found = ds]
    /\ UNCHANGED <<now, address_cache, districts, officials, lastWrite>>
    /\ UNCHANGED <<bulk, data_sources, sync>>
    /\ UNCHANGED pool

\* the officials query and the returned payload
lookup_get_officials(r) ==
    /\ req[r].pc = "officials"
    /\ req' = [req EXCEPT ![r].pc = "done", ![r].status = 200,
                    ![r].result_districts = req[r].found,
                    ![r].result_officials =
                        OfficialsOf(officials, { d.id : d \in req[r].found })]
    /\ UNCHANGED <<now, address_cache, districts, officials, lastWrite>>
    /\ UNCHANGED <<bulk, data_sources, sync>>
    /\ UNCHANGED pool

\* the response has been sent; the slot is free for the next request
lookup_respond(r) ==
    /\ req[r].pc = "done"
    /\ req' = [req EXCEPT ![r] = IdleReq]
    /\ UNCHANGED <<now, address_cache, districts, officials, lastWrite>>
    /\ UNCHANGED <<bulk, data_sources, sync>>
    /\ UNCHANGED pool

-----------------------------------------------------------------------------
(* get_district_boundaries and get_official_details, in a slot of their own *)

\* SELECT id, name, ..., ST_AsGeoJSON(boundary) FROM districts
\*   WHERE ST_Contains(boundary, ST_SetSRID(ST_MakePoint($1, $2), 4326))
\* with $1 = lng, $2 = lat; no district raises 404
get_district_boundaries(r, lat, lng) ==
    /\ req[r].pc = "idle"
    /\ LET ds == DistrictsContaining(districts, PointText(lat, lng))
       IN  IF ds = {}
           THEN req' = [req EXCEPT ![r].pc = "done", ![r].status = 404,
                            ![r].raised = "http",
                            ![r].detail = "No districts found for this location"]
           ELSE req' = [req EXCEPT ![r].pc = "done", ![r].status = 200,
                            ![r].result_districts = ds]
    /\ UNCHANGED <<now, address_cache, districts, officials, lastWrite>>
    /\ UNCHANGED <<bulk, data_sources, sync>>
    /\ UNCHANGED pool

\* SELECT o.*, d.name ... FROM officials o JOIN districts d
\*   ON o.district_id = d.id WHERE o.id = $1
OfficialWithDistrict(tbl, dtbl, official_id) ==
    { o \in tbl : o.id = official_id /\ \E d \in dtbl : d.id = o.district_id }

\* table offices; nothing in the source writes it
Offices ==
    { [official_id |-> 1, office_type |-> "district", city |-> "Springfield",
       phone |-> "555-0100"] }

\* SELECT office_type, ... FROM offices WHERE official_id = $1
OfficesOf(official_id) == { f \in Offices : f.official_id = official_id }

\* ids a request may ask for: the stored officials and one that is not stored
OfficialIds == { o.id : o \in InitOfficials } \cup { 99 }

\* the fetchrow of get_official_details; no row raises 404
get_official_details(r, official_id) ==
    /\ req[r].pc = "idle"
    /\ LET official == OfficialWithDistrict(officials, districts, official_id)
       IN  IF official = {}
           THEN req' = [req EXCEPT ![r].pc = "done", ![r].status = 404,
                            ![r].raised = "http",
                            ![r].detail = "Official not found"]
           ELSE req' = [req EXCEPT ![r].pc = "offices",
                            ![r].result_officials = official]
    /\ UNCHANGED <<now, address_cache, districts, officials, lastWrite>>
    /\ UNCHANGED <<bulk, data_sources, sync>>
    /\ UNCHANGED pool

\* the offices query of get_official_details and the returned payload
get_official_offices(r) ==
    /\ req[r].pc = "offices"
    /\ req' = [req EXCEPT ![r].pc = "done", ![r].status = 200,
                    ![r].found = UNION { OfficesOf(o.id) : o \in req[r].result_officials }]
    /\ UNCHANGED <<now, address_cache, districts, officials, lastWrite>>
    /\ UNCHANGED <<bulk, data_sources, sync>>
    /\ UNCHANGED pool

\* the store's clock advances
Tick ==
    /\ now + TickDays <= MaxTime
    /\ now' = now + TickDays
    /\ UNCHANGED <<address_cache, districts, officials, req, lastWrite>>
    /\ UNCHANGED <<bulk, data_sources, sync>>
    /\ UNCHANGED pool

-----------------------------------------------------------------------------
(* bulk_lookup_representatives *)

\* a parameter declaration without the length limit
AcceptsAnyAddresses(addresses) == TRUE

\* Query(..., max_length=100) on the list parameter: the request is refused
\* with a validation error before the handler runs
AcceptsAddresses(addresses) == Len(addresses) <= MAX_ADDRESSES

\* a loop whose only handler is "except HTTPException"
CatchesHttpOnly(raised) == raised = "http"

\* except HTTPException as e / except Exception as e
BulkCatches(raised) == raised \in {"http", "exception"}

NullResult ==
    [null |-> TRUE, address |-> <<>>, normalized_address |-> <<>>,
     districts |-> {}, officials |-> {}]
NullError == [null |-> TRUE, text |-> ""]

\* the dict lookup_representatives returns
LookupPayload(q) ==
    [null |-> FALSE, address |-> q.address,
     normalized_address |-> NormalizedAddress(q.address),
     districts |-> q.result_districts, officials |-> q.result_officials]

\* the entry appended to results for one address: the payload, or the
\* exception's detail / message as the error
BulkItem(address, q) ==
    IF q.raised = ""
    THEN [address |-> address, result |-> LookupPayload(q), error |-> NullError]
    ELSE [address |-> address, result |-> NullResult,
          error |-> [null |-> FALSE, text |-> q.detail]]

IdleBulk == [pc |-> "idle", addresses |-> <<>>, i |-> 0, results |-> <<>>, status |-> 0]

\* the request arrives; its query parameters are validated
bulk_start(addresses) ==
    /\ bulk.pc = "idle"
    /\ IF AcceptsAddresses(addresses)
       THEN bulk' = [IdleBulk EXCEPT !.pc = "loop", !.addresses = addresses, !.i = 1]
       ELSE bulk' = [IdleBulk EXCEPT !.pc = "done", !.addresses = addresses,
                                     !.status = 422]
    /\ UNCHANGED <<now, address_cache, districts, officials, data_sources, req,
                   sync, lastWrite>>
    /\ UNCHANGED pool

\* result = await lookup_representatives(address)
bulk_call ==
    /\ bulk.pc = "loop"
    /\ req[BulkSlot].pc = "idle"
    /\ req' = [req EXCEPT ![BulkSlot] =
                  [IdleReq EXCEPT !.pc = "cache", !.address = bulk.addresses[bulk.i]]]
    /\ bulk' = [bulk EXCEPT !.pc = "await"]
    /\ UNCHANGED <<now, address_cache, districts, officials, data_sources,
                   sync, lastWrite>>
    /\ UNCHANGED pool

\* the call returned or raised: results.append(...), then the next address;
\* an exception no handler catches ends the request
bulk_collect ==
    /\ bulk.pc = "await"
    /\ req[BulkSlot].pc = "done"
    /\ LET q == req[BulkSlot]
           last == bulk.i = Len(bulk.addresses)
       IN  IF q.raised = "" \/ BulkCatches(q.raised)
           THEN bulk' = [bulk EXCEPT
                            !.results = Append(@, BulkItem(bulk.addresses[bulk.i], q)),
                            !.i = @ + 1,
                            !.pc = IF last THEN "done" ELSE "loop",
                            !.status = IF last THEN 200 ELSE 0]
           ELSE bulk' = [bulk EXCEPT !.pc = "done", !.status = 500]
    /\ req' = [req EXCEPT ![BulkSlot] = IdleReq]
    /\ UNCHANGED <<now, address_cache, districts, officials, data_sources,
                   sync, lastWrite>>
    /\ UNCHANGED pool

\* the response has been sent
bulk_respond ==
    /\ bulk.pc = "done"
    /\ bulk' = IdleBulk
    /\ UNCHANGED <<now, address_cache, districts, officials, data_sources, req,
                   sync, lastWrite>>
    /\ UNCHANGED pool

-----------------------------------------------------------------------------
(* DataSync: the records the sources deliver *)

\* SQL NULL in a text column
NULL == "<null>"

\* district records as update_districts reads them; a geometry that
\* ST_GeomFromGeoJSON cannot parse is not valid
CensusRecords ==
    { [type |-> "state_house", state |-> "18", code |-> "HD-1",
       name |-> "House District 1", geometry |-> [valid |-> TRUE,
                                                  shape |-> { PointText(41, -87) }]],
      [type |-> "county", state |-> "17", code |-> "C-031",
       name |-> "Cook County", geometry |-> [valid |-> TRUE,
                                             shape |-> { PointText(0, 0) }]],
      [type |-> "county", state |-> "17", code |-> "C-999",
       name |-> "Broken County", geometry |-> [valid |-> FALSE, shape |-> {}]] }

\* official records as update_officials reads them
OfficialRecords ==
    { [name |-> "John Doe Jr", title |-> "State Senator", district_id |-> 1,
       party |-> "Democratic", email |-> "jd@state.gov", phone |-> "555-0199",
       website |-> "https://jd.gov", term_start |-> "2025", term_end |-> "2029",
       source |-> "openstates", source_id |-> "1"],
      [name |-> "Ann Lee", title |-> "Commissioner", district_id |-> 3,
       party |-> "Independent", email |-> "ann.lee@cook.gov", phone |-> "555-0300",
       website |-> "https://lee.gov", term_start |-> "2025", term_end |-> "2029",
       source |-> "openstates", source_id |-> "7"],
      [name |-> "Jane Roe-Smith", title |-> "State Senator", district_id |-> 9,
       party |-> "Republican", email |-> "jrs@state.gov", phone |-> "555-0124",
       website |-> "https://roe.gov", term_start |-> "2025", term_end |-> "2029",
       source |-> "openstates", source_id |-> "2"] }

ListsOf(S) == UNION { [1..n -> S] : n \in 0..MaxFetched }

\* what a fetch hands to sync_all: a list, or None
NoneValue == [none |-> TRUE, list |-> <<>>]
ListValue(l) == [none |-> FALSE, list |-> l]

\* the provider's answer to fetch_openstates_data, and a source_config
\* without the 'openstates' entry
OpenStatesOutcomes ==
    [kind : {"json"}, data : ListsOf(OfficialRecords)]
        \cup [kind : {"http_error", "client_error", "config_error"}, data : {<<>>}]

\* fetch_openstates_data: the JSON of a 200 response; [] for another status
\* and for an exception inside the try; the KeyError of the configuration
\* lookup, made before the try, leaves the function
fetch_openstates_data(outcome) ==
    CASE outcome.kind = "json" ->
            [raised |-> FALSE, message |-> "", value |-> ListValue(outcome.data)]
      [] outcome.kind = "config_error" ->
            [raised |-> TRUE, message |-> "'openstates'", value |-> NoneValue]
      [] OTHER ->
            [raised |-> FALSE, message |-> "", value |-> ListValue(<<>>)]

\* fetch_census_data is a placeholder whose body is "pass": it returns None.
\* The tests replace it by a stub that returns a list; stubbed is that list.
CensusResults == { NoneValue } \cup { ListValue(l) : l \in ListsOf(CensusRecords) }

fetch_census_data(stubbed) == stubbed

-----------------------------------------------------------------------------
(* The SQL statements of DataSync *)

NextId(tbl) == IF tbl = {} THEN 1
               ELSE (CHOOSE i \in { r.id : r \in tbl } :
                        \A j \in { r.id : r \in tbl } : j <= i) + 1

\* a district insert without the ON CONFLICT clause's effect: always a new row
DistrictInsertOnly(tbl, rec) ==
    tbl \cup { [id |-> NextId(tbl), district_type |-> rec.type,
                state_fips |-> rec.state, district_code |-> rec.code,
                name |-> rec.name, boundary |-> rec.geometry.shape] }

\* INSERT INTO districts ... ON CONFLICT (district_code)
\*   DO UPDATE SET name, boundary, updated_at
DistrictUpsert(tbl, rec) ==
    IF \E d \in tbl : d.district_code = rec.code
    THEN { IF d.district_code = rec.code
           THEN [d EXCEPT !.name = rec.name, !.boundary = rec.geometry.shape]
           ELSE d : d \in tbl }
    ELSE tbl \cup { [id |-> NextId(tbl), district_type |-> rec.type,
                     state_fips |-> rec.state, district_code |-> rec.code,
                     name |-> rec.name, boundary |-> rec.geometry.shape] }

\* the foreign key of officials.district_id on districts.id
DistrictExists(tbl, district_id) == \E d \in tbl : d.id = district_id

\* an official insert that leaves a conflicting row as it is (DO NOTHING)
OfficialInsertOrKeep(tbl, rec) ==
    IF \E o \in tbl : o.source_type = rec.source /\ o.source_id = rec.source_id
    THEN tbl
    ELSE tbl \cup { [id |-> NextId(tbl), full_name |-> rec.name,
                     office_title |-> rec.title, district_id |-> rec.district_id,
                     party |-> rec.party, email |-> rec.email,
                     phone |-> rec.phone, website |-> rec.website,
                     term_start |-> rec.term_start, term_end |-> rec.term_end,
                     source_type |-> rec.source, source_id |-> rec.source_id] }

\* INSERT INTO officials ... ON CONFLICT (source_type, source_id)
\*   DO UPDATE SET full_name, office_title, party, email, phone, website,
\*                 updated_at
OfficialUpsert(tbl, rec) ==
    IF \E o \in tbl : o.source_type = rec.source /\ o.source_id = rec.source_id
    THEN { IF o.source_type = rec.source /\ o.source_id = rec.source_id
           THEN [o EXCEPT !.full_name = rec.name, !.office_title = rec.title,
                          !.party = rec.party, !.email = rec.email,
                          !.phone = rec.phone, !.website = rec.website]
           ELSE o : o \in tbl }
    ELSE tbl \cup { [id |-> NextId(tbl), full_name |-> rec.name,
                     office_title |-> rec.title, district_id |-> rec.district_id,
                     party |-> rec.party, email |-> rec.email,
                     phone |-> rec.phone, website |-> rec.website,
                     term_start |-> rec.term_start, term_end |-> rec.term_end,
                     source_type |-> rec.source, source_id |-> rec.source_id] }

\* a district merge in one transaction: a record that fails undoes the
\* records merged before it
RECURSIVE update_districts_transactional(_, _, _)
update_districts_transactional(tbl, data, k) ==
    IF data.none
    THEN [tbl |-> tbl, raised |-> TRUE,
          message |-> "'NoneType' object is not iterable"]
    ELSE IF \E j \in k..Len(data.list) : ~data.list[j].geometry.valid
    THEN [tbl |-> tbl, raised |-> TRUE,
          message |-> "invalid GeoJSON representation"]
    ELSE IF k > Len(data.list)
    THEN [tbl |-> tbl, raised |-> FALSE, message |-> ""]
    ELSE update_districts_transactional(DistrictUpsert(tbl, data.list[k]), data,
                                        k + 1)

\* update_districts: the loop over the records, each statement committed on
\* its own; the first exception ends the loop
RECURSIVE update_districts(_, _, _)
update_districts(tbl, data, k) ==
    IF data.none
    THEN [tbl |-> tbl, raised |-> TRUE,
          message |-> "'NoneType' object is not iterable"]
    ELSE IF k > Len(data.list)
    THEN [tbl |-> tbl, raised |-> FALSE, message |-> ""]
    ELSE IF ~data.list[k].geometry.valid
    THEN [tbl |-> tbl, raised |-> TRUE,
          message |-> "invalid GeoJSON representation"]
    ELSE update_districts(DistrictUpsert(tbl, data.list[k]), data, k + 1)

\* update_officials: the same loop; inserting an official whose district does
\* not exist violates the foreign key
RECURSIVE update_officials(_, _, _, _)
update_officials(tbl, dtbl, data, k) ==
    IF data.none
    THEN [tbl |-> tbl, raised |-> TRUE,
          message |-> "'NoneType' object is not iterable"]
    ELSE IF k > Len(data.list)
    THEN [tbl |-> tbl, raised |-> FALSE, message |-> ""]
    ELSE LET rec == data.list[k]
             conflict == \E o \in tbl : /\ o.source_type = rec.source
                                        /\ o.source_id = rec.source_id
         IN  IF ~conflict /\ ~DistrictExists(dtbl, rec.district_id)
             THEN [tbl |-> tbl, raised |-> TRUE,
                   message |-> "violates foreign key constraint"]
             ELSE update_officials(OfficialUpsert(tbl, rec), dtbl, data, k + 1)

\* a success write that leaves last_sync alone
StatusSuccessKeepsTime(tbl, status, ts, name) ==
    { IF row.source_name = name THEN [row EXCEPT !.status = status] ELSE row
        : row \in tbl }

\* an error write that records a fixed text
StatusErrorGeneric(tbl, status, message, name) ==
    { IF row.source_name = name
      THEN [row EXCEPT !.status = status, !.error_message = "sync failed"]
      ELSE row : row \in tbl }

\* INSERT INTO data_sources (source_name, last_sync, status) ...
\*   ON CONFLICT (source_name) DO UPDATE SET last_sync, status
StatusUpsert(tbl, name, ts, status) ==
    IF \E row \in tbl : row.source_name = name
    THEN { IF row.source_name = name
           THEN [row EXCEPT !.last_sync = ts, !.status = status]
           ELSE row : row \in tbl }
    ELSE tbl \cup { [source_name |-> name, last_sync |-> ts, status |-> status,
                     error_message |-> NULL] }

\* UPDATE data_sources SET status = $1, last_sync = $2 WHERE source_name = $3
StatusUpdate(tbl, status, ts, name) ==
    { IF row.source_name = name
      THEN [row EXCEPT !.status = status, !.last_sync = ts]
      ELSE row : row \in tbl }

\* UPDATE data_sources SET status = $1, error_message = $2 WHERE source_name = $3
StatusError(tbl, status, message, name) ==
    { IF row.source_name = name
      THEN [row EXCEPT !.status = status, !.error_message = message]
      ELSE row : row \in tbl }

-----------------------------------------------------------------------------
(* sync_all, one DataSync instance per syncer *)

Syncers == {"s1", "s2"}

\* a DataSync just constructed: self.pool = None.  log, running_at and
\* openstates_outcome are history of the current run, exc and escaped the
\* exception it met
NewSync ==
    [pc |-> "idle", pool |-> "none", runs |-> 0,
     openstates_data |-> NoneValue, census_data |-> NoneValue,
     exc |-> "", escaped |-> FALSE, log |-> <<>>, running_at |-> 0,
     openstates_outcome |-> ""]

Logged(s, event) == Append(sync[s].log, event)

\* the set of the events of a log
Events(log) == { log[k] : k \in 1..Len(log) }

\* an exception reaches "except Exception as e"
Raise(s, message) == [sync EXCEPT ![s].pc = "except", ![s].exc = message]

\* sync_all is called
sync_start(s) ==
    /\ sync[s].pc \in {"idle", "returned"}
    /\ sync[s].runs < MaxRuns
    /\ sync' = [sync EXCEPT ![s] = [NewSync EXCEPT !.pc = "init",
                                                   !.pool = sync[s].pool,
                                                   !.runs = sync[s].runs + 1]]
    /\ UNCHANGED <<now, address_cache, districts, officials, data_sources, req,
                   bulk, lastWrite>>
    /\ UNCHANGED pool

\* await self.init_db_pool(): asyncpg.create_pool connects, or raises and
\* leaves self.pool as it was
sync_init_db_pool(s, connects) ==
    /\ sync[s].pc = "init"
    /\ IF connects
       THEN sync' = [sync EXCEPT ![s].pc = "mark_running", ![s].pool = "open"]
       ELSE sync' = Raise(s, "connection refused")
    /\ UNCHANGED <<now, address_cache, districts, officials, data_sources, req,
                   bulk, lastWrite>>
    /\ UNCHANGED pool

\* the first status write: 'full_sync', datetime.now(), 'running'
sync_mark_running(s) ==
    /\ sync[s].pc = "mark_running"
    /\ data_sources' = StatusUpsert(data_sources, "full_sync", now, "running")
    /\ sync' = [sync EXCEPT ![s].pc = "fetch_openstates",
                            ![s].log = Logged(s, "running"),
                            ![s].running_at = now]
    /\ UNCHANGED <<now, address_cache, districts, officials, req, bulk, lastWrite>>
    /\ UNCHANGED pool

\* openstates_data = await self.fetch_openstates_data(); openstates_outcome
\* remembers what the provider did in this run
sync_fetch_openstates(s, outcome) ==
    /\ sync[s].pc = "fetch_openstates"
    /\ LET f == fetch_openstates_data(outcome)
       IN  IF f.raised
           THEN sync' = [Raise(s, f.message) EXCEPT
                            ![s].openstates_outcome = outcome.kind]
           ELSE sync' = [sync EXCEPT ![s].pc = "fetch_census",
                                     ![s].openstates_outcome = outcome.kind,
                                     ![s].openstates_data = f.value,
                                     ![s].log = Logged(s, "fetch_openstates")]
    /\ UNCHANGED <<now, address_cache, districts, officials, data_sources, req,
                   bulk, lastWrite>>
    /\ UNCHANGED pool

\* census_data = await self.fetch_census_data()
sync_fetch_census(s, stubbed) ==
    /\ sync[s].pc = "fetch_census"
    /\ sync' = [sync EXCEPT ![s].pc = "update_districts",
                            ![s].census_data = fetch_census_data(stubbed),
                            ![s].log = Logged(s, "fetch_census")]
    /\ UNCHANGED <<now, address_cache, districts, officials, data_sources, req,
                   bulk, lastWrite>>
    /\ UNCHANGED pool

\* a run that goes on to the official merge with its district merge not done
sync_skip_districts(s) ==
    /\ sync[s].pc = "update_districts"
    /\ sync' = [sync EXCEPT ![s].pc = "update_officials",
                            ![s].log = Logged(s, "update_districts")]
    /\ UNCHANGED <<now, address_cache, districts, officials, data_sources, req,
                   bulk, lastWrite>>
    /\ UNCHANGED pool

\* await self.update_districts(census_data)
sync_update_districts(s) ==
    /\ sync[s].pc = "update_districts"
    /\ LET m == update_districts(districts, sync[s].census_data, 1)
       IN  /\ districts' = m.tbl
           /\ IF m.raised
              THEN sync' = Raise(s, m.message)
              ELSE sync' = [sync EXCEPT ![s].pc = "update_officials",
                                        ![s].log = Logged(s, "update_districts")]
    /\ UNCHANGED <<now, address_cache, officials, data_sources, req, bulk,
                   lastWrite>>
    /\ UNCHANGED pool

\* await self.update_officials(openstates_data)
sync_update_officials(s) ==
    /\ sync[s].pc = "update_officials"
    /\ LET m == update_officials(officials, districts, sync[s].openstates_data, 1)
       IN  /\ officials' = m.tbl
           /\ IF m.raised
              THEN sync' = Raise(s, m.message)
              ELSE sync' = [sync EXCEPT ![s].pc = "mark_success",
                                        ![s].log = Logged(s, "update_officials")]
    /\ UNCHANGED <<now, address_cache, districts, data_sources, req, bulk,
                   lastWrite>>
    /\ UNCHANGED pool

\* the last statement of the try block: 'success', datetime.now(), 'full_sync'
sync_mark_success(s) ==
    /\ sync[s].pc = "mark_success"
    /\ data_sources' = StatusUpdate(data_sources, "success", now, "full_sync")
    /\ sync' = [sync EXCEPT ![s].pc = "finally", ![s].log = Logged(s, "success")]
    /\ UNCHANGED <<now, address_cache, districts, officials, req, bulk, lastWrite>>
    /\ UNCHANGED pool

\* except Exception as e: with a pool, the error write; a pool that an
\* earlier run closed refuses acquire(), and that exception leaves sync_all
sync_handle_exception(s) ==
    /\ sync[s].pc = "except"
    /\ \/ /\ sync[s].pool = "none"
          /\ sync' = [sync EXCEPT ![s].pc = "finally"]
          /\ UNCHANGED data_sources
       \/ /\ sync[s].pool = "closed"
          /\ sync' = [sync EXCEPT ![s].pc = "finally", ![s].escaped = TRUE]
          /\ UNCHANGED data_sources
       \/ /\ sync[s].pool = "open"
          /\ data_sources' = StatusError(data_sources, "error", sync[s].exc,
                                         "full_sync")
          /\ sync' = [sync EXCEPT ![s].pc = "finally",
                                  ![s].log = Logged(s, "error")]
    /\ UNCHANGED <<now, address_cache, districts, officials, req, bulk, lastWrite>>
    /\ UNCHANGED pool

\* finally: if self.pool: await self.pool.close()
sync_finally(s) ==
    /\ sync[s].pc = "finally"
    /\ sync' = [sync EXCEPT ![s].pc = "returned",
                            ![s].pool = IF sync[s].pool = "none" THEN "none"
                                        ELSE "closed"]
    /\ UNCHANGED <<now, address_cache, districts, officials, data_sources, req,
                   bulk, lastWrite>>
    /\ UNCHANGED pool

\* the steps of the runs of the syncers ss
SyncStep(ss) ==
    \/ \E s \in ss : sync_start(s)
    \/ \E s \in ss, connects \in BOOLEAN : sync_init_db_pool(s, connects)
    \/ \E s \in ss : sync_mark_running(s)
    \/ \E s \in ss, outcome \in OpenStatesOutcomes : sync_fetch_openstates(s, outcome)
    \/ \E s \in ss, stubbed \in CensusResults : sync_fetch_census(s, stubbed)
    \/ \E s \in ss : sync_update_districts(s)
    \/ \E s \in ss : sync_update_officials(s)
    \/ \E s \in ss : sync_mark_success(s)
    \/ \E s \in ss : sync_handle_exception(s)
    \/ \E s \in ss : sync_finally(s)

-----------------------------------------------------------------------------
(* app.state.pool: the connections the request handlers acquire.  The data *)
(* a lookup reads and writes while it holds its connection is in the steps *)
(* of lookup_representatives above; here a handler is followed only from   *)
(* one "async with app.state.pool.acquire()" to the next.                  *)

\* as many concurrent bulk requests as the pool has connections, and one
\* direct lookup
BulkClients == 1..PoolSize
LookupClients == { 0 }
PoolClients == BulkClients \cup LookupClients

\* held: the connections the request holds; i of n: the address a bulk
\* request is at
IdleClient == [pc |-> "idle", held |-> 0, i |-> 0, n |-> 0]

\* the connections out of the pool
InUse ==
    Cardinality({ c \in PoolClients : pool[c].held >= 1 })
        + Cardinality({ c \in PoolClients : pool[c].held >= 2 })

\* a bulk request with n addresses arrives and reaches
\* "async with app.state.pool.acquire() as conn" of bulk_lookup_representatives
pool_bulk_request(c, n) ==
    /\ pool[c].pc = "idle"
    /\ pool' = [pool EXCEPT ![c] = [pc |-> "acquire", held |-> 0, i |-> 1, n |-> n]]
    /\ UNCHANGED <<now, address_cache, districts, officials, data_sources, req,
                   bulk, sync, lastWrite>>

\* acquire() returns once a connection is free; it waits without a timeout
pool_bulk_acquire(c) ==
    /\ pool[c].pc = "acquire"
    /\ InUse < PoolSize
    /\ pool' = [pool EXCEPT ![c].pc = "loop", ![c].held = 1]
    /\ UNCHANGED <<now, address_cache, districts, officials, data_sources, req,
                   bulk, sync, lastWrite>>

\* for address in addresses: await lookup_representatives(address), which
\* reaches its own "async with app.state.pool.acquire() as conn"
pool_bulk_call(c) ==
    /\ pool[c].pc = "loop"
    /\ pool[c].i <= pool[c].n
    /\ pool' = [pool EXCEPT ![c].pc = "lookup_acquire"]
    /\ UNCHANGED <<now, address_cache, districts, officials, data_sources, req,
                   bulk, sync, lastWrite>>

\* a direct lookup request arrives at its acquire()
pool_lookup_request(c) ==
    /\ pool[c].pc = "idle"
    /\ pool' = [pool EXCEPT ![c].pc = "lookup_acquire"]
    /\ UNCHANGED <<now, address_cache, districts, officials, data_sources, req,
                   bulk, sync, lastWrite>>

\* the acquire() of lookup_representatives returns once a connection is free
pool_lookup_acquire(c) ==
    /\ pool[c].pc = "lookup_acquire"
    /\ InUse < PoolSize
    /\ pool' = [pool EXCEPT ![c].pc = "lookup", ![c].held = @ + 1]
    /\ UNCHANGED <<now, address_cache, districts, officials, data_sources, req,
                   bulk, sync, lastWrite>>

\* lookup_representatives returns or raises: its "async with" gives the
\* connection back; a bulk request goes on to its next address
pool_lookup_exit(c) ==
    /\ pool[c].pc = "lookup"
    /\ IF c \in BulkClients
       THEN pool' = [pool EXCEPT ![c].pc = "loop", ![c].held = @ - 1,
                                 ![c].i = @ + 1]
       ELSE pool' = [pool EXCEPT ![c] = IdleClient]
    /\ UNCHANGED <<now, address_cache, districts, officials, data_sources, req,
                   bulk, sync, lastWrite>>

\* the loop of the bulk request is over: its "async with" gives the
\* connection back and the results are returned
pool_bulk_exit(c) ==
    /\ pool[c].pc = "loop"
    /\ pool[c].i > pool[c].n
    /\ pool' = [pool EXCEPT ![c] = IdleClient]
    /\ UNCHANGED <<now, address_cache, districts, officials, data_sources, req,
                   bulk, sync, lastWrite>>

-----------------------------------------------------------------------------
NoWrite == [written |-> FALSE, location |-> NoLocation, at |-> 0]

Init ==
    /\ now = 0
    /\ address_cache = {}
    /\ districts = InitDistricts
    /\ officials = InitOfficials
    /\ data_sources = {}
    /\ req = [r \in Slots |-> IdleReq]
    /\ bulk = IdleBulk
    /\ sync = [s \in Syncers |-> NewSync]
    /\ lastWrite = [n \in NormalizedAddresses |-> NoWrite]
    /\ pool = [c \in PoolClients |-> IdleClient]

\* the steps of the lookups in the slots rs, against a provider that answers
\* from answers
LookupStep(rs, answers) ==
    \/ \E r \in rs, a \in Addresses : lookup_start(r, a)
    \/ \E r \in rs : lookup_check_cache(r)
    \/ \E r \in rs, answer \in answers : lookup_geocode(r, answer)
    \/ \E r \in rs : lookup_cache_result(r)
    \/ \E r \in rs : lookup_find_districts(r)
    \/ \E r \in rs : lookup_get_officials(r)
    \/ \E r \in rs : lookup_respond(r)

(* One request at a time, any provider answer, the clock running *)
Next ==
    \/ LookupStep({"r1"}, ProviderAnswers)
    \/ Tick

Spec == Init /\ [][Next]_vars

(* Two requests interleaved at their awaits *)
ConcPoints == { <<40, -74>>, <<0, 0>> }

NextConc ==
    \/ LookupStep(Requests, AnswersWith(ConcPoints))
    \/ Tick

SpecConc == Init /\ [][NextConc]_vars

(* One bulk request at a time.  "El" was looked up at time 0 and is cached,  *)
(* so that a list at the limit of 100 addresses can be answered from the     *)
(* cache.                                                                    *)
WarmAddress == <<69, 108>>
WarmLocation == PointText(40, -74)

InitBulk ==
    /\ now = 0
    /\ address_cache = CacheUpsert({}, WarmAddress, NormalizedAddress(WarmAddress),
                                   WarmLocation, 0)
    /\ districts = InitDistricts
    /\ officials = InitOfficials
    /\ data_sources = {}
    /\ req = [r \in Slots |-> IdleReq]
    /\ bulk = IdleBulk
    /\ sync = [s \in Syncers |-> NewSync]
    /\ lastWrite = [n \in NormalizedAddresses |->
                        IF n = Lower(WarmAddress)
                        THEN [written |-> TRUE, location |-> WarmLocation, at |-> 0]
                        ELSE NoWrite]
    /\ pool = [c \in PoolClients |-> IdleClient]

\* the address lists of the requests: every short list, and the warm address
\* repeated up to the limit and one past it
BulkInputs ==
    UNION { [1..n -> Addresses] : n \in 1..MaxBulkLen }
        \cup { [i \in 1..MAX_ADDRESSES |-> WarmAddress],
               [i \in 1..(MAX_ADDRESSES + 1) |-> WarmAddress] }

NextBulk ==
    \/ \E addresses \in BulkInputs : bulk_start(addresses)
    \/ bulk_call
    \/ lookup_check_cache(BulkSlot)
    \/ \E answer \in ProviderAnswers : lookup_geocode(BulkSlot, answer)
    \/ lookup_cache_result(BulkSlot)
    \/ lookup_find_districts(BulkSlot)
    \/ lookup_get_officials(BulkSlot)
    \/ bulk_collect
    \/ bulk_respond

SpecBulk == InitBulk /\ [][NextBulk]_vars

(* The runs of one DataSync instance, one after the other, the clock running *)
NextSync ==
    \/ SyncStep({"s1"})
    \/ Tick

SpecSync == Init /\ [][NextSync]_vars

(* A second DataSync instance repeats the last run of the first: it starts   *)
(* once the first has fetched and returned, and its sources deliver the same *)
(* records again                                                             *)
NextRerun ==
    \/ /\ sync["s2"].pc = "idle"
       /\ SyncStep({"s1"})
    \/ /\ sync["s1"].pc = "returned"
       /\ "fetch_census" \in Events(sync["s1"].log)
       /\ \/ sync_start("s2")
          \/ \E connects \in BOOLEAN : sync_init_db_pool("s2", connects)
          \/ sync_mark_running("s2")
          \/ \E outcome \in OpenStatesOutcomes :
                /\ outcome.kind = sync["s1"].openstates_outcome
                /\ outcome.data = sync["s1"].openstates_data.list
                /\ sync_fetch_openstates("s2", outcome)
          \/ sync_fetch_census("s2", sync["s1"].census_data)
          \/ sync_update_districts("s2")
          \/ sync_update_officials("s2")
          \/ sync_mark_success("s2")
          \/ sync_handle_exception("s2")
          \/ sync_finally("s2")

SpecRerun == Init /\ [][NextRerun]_vars

(* Two DataSync instances run sync_all against the same store, interleaved  *)
(* at their awaits; the sources deliver no records                          *)
RaceOutcomes == { o \in OpenStatesOutcomes : o.data = <<>> }
RaceCensus == { NoneValue, ListValue(<<>>) }

NextRace ==
    \/ \E s \in Syncers : sync_start(s)
    \/ \E s \in Syncers, connects \in BOOLEAN : sync_init_db_pool(s, connects)
    \/ \E s \in Syncers : sync_mark_running(s)
    \/ \E s \in Syncers, outcome \in RaceOutcomes : sync_fetch_openstates(s, outcome)
    \/ \E s \in Syncers, stubbed \in RaceCensus : sync_fetch_census(s, stubbed)
    \/ \E s \in Syncers : sync_update_districts(s)
    \/ \E s \in Syncers : sync_update_officials(s)
    \/ \E s \in Syncers : sync_mark_success(s)
    \/ \E s \in Syncers : sync_handle_exception(s)
    \/ \E s \in Syncers : sync_finally(s)

SpecRace == Init /\ [][NextRace]_vars

(* Concurrent bulk and direct lookup requests on the shared pool *)
NextPool ==
    \/ \E c \in BulkClients, n \in 1..MaxBulkLen : pool_bulk_request(c, n)
    \/ \E c \in BulkClients : pool_bulk_acquire(c)
    \/ \E c \in BulkClients : pool_bulk_call(c)
    \/ \E c \in LookupClients : pool_lookup_request(c)
    \/ \E c \in PoolClients : pool_lookup_acquire(c)
    \/ \E c \in PoolClients : pool_lookup_exit(c)
    \/ \E c \in BulkClients : pool_bulk_exit(c)

SpecPool == Init /\ [][NextPool]_vars

(* The four read endpoints, one request at a time, the clock running *)
Quiet == bulk.pc = "idle" /\ \A r \in Slots : req[r].pc = "idle"

ShortLists == UNION { [1..n -> Addresses] : n \in 1..MaxBulkLen }

NextRead ==
    \/ \E a \in Addresses : Quiet /\ lookup_start("r1", a)
    \/ \E r \in {"r1", BulkSlot} : lookup_check_cache(r)
    \/ \E r \in {"r1", BulkSlot}, answer \in AnswersWith(ConcPoints) :
          lookup_geocode(r, answer)
    \/ \E r \in {"r1", BulkSlot} : lookup_cache_result(r)
    \/ \E r \in {"r1", BulkSlot} : lookup_find_districts(r)
    \/ \E r \in {"r1", BulkSlot} : lookup_get_officials(r)
    \/ \E r \in Requests : lookup_respond(r)
    \/ \E p \in ConcPoints : Quiet /\ get_district_boundaries("r2", p[1], p[2])
    \/ \E id \in OfficialIds : Quiet /\ get_official_details("r2", id)
    \/ get_official_offices("r2")
    \/ \E addresses \in ShortLists : Quiet /\ bulk_start(addresses)
    \/ bulk_call
    \/ bulk_collect
    \/ bulk_respond
    \/ Quiet /\ Tick

SpecRead == Init /\ [][NextRead]_vars

-----------------------------------------------------------------------------
(* Properties of the lookup pipeline *)

\* the cache rows of a normalized address
RowsOf(n) == { row \in address_cache : row.normalized_address = n }

\* slot r leaves its cache read in this step
ReadsCache(r) == req[r].pc = "cache" /\ req'[r].pc # "cache"

\* C1: once a lookup has geocoded an address and written its cache entry,
\* every later lookup of an address with the same normalized form that reads
\* the cache before the entry's expiry (30 days after the write) takes the
\* cached point and never calls the geocoding provider, whatever other
\* lookups ran in between or run concurrently.
C1_CacheRoundTrip ==
    [][ /\ \A r \in Requests :
             LET w == lastWrite[Lower(req[r].address)]
             IN  (ReadsCache(r) /\ w.written /\ now < w.at + CACHE_TTL_DAYS)
                    => /\ req'[r].hit
                       /\ req'[r].pc = "districts"
                       /\ req'[r].location = w.location
        /\ \A r \in Requests : req'[r].hit => ~req'[r].called ]_vars

\* a lookup of "ma" answered from the entry that a lookup of "Ma" wrote on an
\* earlier day, an entry for another address having been written as well
C1_Witness ==
    \E r \in Requests :
        /\ req[r].pc = "done" /\ req[r].status = 200
        /\ req[r].hit /\ ~req[r].called
        /\ \E row \in RowsOf(Lower(req[r].address)) :
              /\ row.address # req[r].address
              /\ row.location = req[r].location
        /\ lastWrite[Lower(req[r].address)].at < now
        /\ \A n \in NormalizedAddresses : lastWrite[n].written

\* the stored districts whose boundary contains a location
Containing(location) == { d \in districts : location \in d.boundary }

\* C2: a lookup that resolved its point returns exactly the stored districts
\* whose boundary contains the point and exactly the officials whose district
\* is one of them; it fails with 404 "No districts found" if and only if no
\* stored district contains the point, and succeeds with an empty officials
\* list when the districts found have no official.
C2_LookupResult ==
    \A r \in Requests :
        (req[r].pc = "done" /\ req[r].location # NoLocation) =>
            LET ds == Containing(req[r].location)
                os == { o \in officials : \E d \in ds : o.district_id = d.id }
            IN  /\ (req[r].status = 404) <=> (ds = {})
                /\ req[r].status = 404 =>
                      req[r].detail = "No districts found for this address"
                /\ req[r].status \in {200, 404}
                /\ req[r].status = 200 =>
                      /\ { d.id : d \in req[r].result_districts } = { d.id : d \in ds }
                      /\ \A d \in req[r].result_districts : \E e \in ds :
                            /\ e.id = d.id /\ e.name = d.name
                            /\ e.district_code = d.district_code
                      /\ { o.id : o \in req[r].result_officials } = { o.id : o \in os }
                      /\ \A o \in req[r].result_officials : \E p \in os :
                            p.id = o.id /\ p.full_name = o.full_name

\* a successful lookup with a district and no official
C2_Witness ==
    \E r \in Requests :
        /\ req[r].pc = "done" /\ req[r].status = 200
        /\ req[r].result_districts # {}
        /\ req[r].result_officials = {}

\* C5: on a cache miss, a provider timeout ends the lookup with 408 and a
\* provider no-match ends it with 404 "Address not found"; the steps of a
\* lookup up to and including the failed geocoding leave the address cache
\* as it was.
C5_GeocodeFailure ==
    [][ \A r \in Requests :
          (req[r].pc \in {"idle", "cache", "geocode"} /\ req'[r] # req[r]) =>
             /\ address_cache' = address_cache
             /\ req'[r].provider = "timed_out" =>
                   (req'[r].pc = "done" /\ req'[r].status = 408 /\ ~req'[r].hit)
             /\ req'[r].provider = "no_match" =>
                   (req'[r].pc = "done" /\ req'[r].status = 404 /\ ~req'[r].hit
                    /\ req'[r].detail = "Address not found") ]_vars

\* a lookup that timed out on an expired entry, which is still there
C5_Witness ==
    \E r \in Requests :
        /\ req[r].pc = "done" /\ req[r].provider = "timed_out"
        /\ req[r].status = 408
        /\ \E row \in RowsOf(Lower(req[r].address)) : row.expires_at <= now

\* C6: whenever the geocoding of the address fails, for whatever reason, the
\* lookup answers 404 or 408.
C6_GeocodeFailureStatus ==
    \A r \in Requests :
        (req[r].pc = "done" /\ req[r].provider \in {"no_match", "timed_out", "failed"})
            => req[r].status \in {404, 408}

\* C7: a cache read is a hit if and only if the address has an entry with
\* expires_at > now; an entry with expires_at = now or earlier is a miss, the
\* lookup goes on to call the provider, and the write that follows the
\* provider's point leaves the entry with that point and expires_at = now + 30
\* days.
C7_ExpiryExclusive ==
    [][ \A r \in Requests :
          /\ ReadsCache(r) =>
                /\ req'[r].hit <=>
                      \E row \in RowsOf(Lower(req[r].address)) : row.expires_at > now
                /\ ~req'[r].hit => (req'[r].pc = "geocode" /\ ~req'[r].called)
          /\ (req[r].pc = "geocode" /\ req'[r].pc # "geocode") => req'[r].called
          /\ (req[r].pc = "insert" /\ req'[r].pc # "insert") =>
                \E row \in address_cache' :
                    /\ row.normalized_address = Lower(req[r].address)
                    /\ row.location = req[r].location
                    /\ row.expires_at = now + CACHE_TTL_DAYS
                    /\ \A other \in address_cache' :
                          other.normalized_address = row.normalized_address
                             => other = row ]_vars

\* a lookup has missed on an entry that expires exactly now and has called
\* the provider; its write is next
C7_Witness ==
    \E r \in Requests :
        /\ req[r].pc = "insert" /\ ~req[r].hit /\ req[r].called
        /\ \E row \in RowsOf(Lower(req[r].address)) : row.expires_at = now

\* C8: the address cache holds at most one entry per normalized address, also
\* when concurrent lookups miss on the same address and both call the
\* provider; the entry carries the point and the expiry of the last write.
C8_OneEntryPerAddress ==
    /\ \A r1 \in address_cache, r2 \in address_cache :
          r1.normalized_address = r2.normalized_address => r1 = r2
    /\ \A n \in NormalizedAddresses :
          IF lastWrite[n].written
          THEN \E row \in RowsOf(n) :
                  /\ row.location = lastWrite[n].location
                  /\ row.expires_at = lastWrite[n].at + CACHE_TTL_DAYS
          ELSE RowsOf(n) = {}

\* two lookups of the same normalized address missed, were given different
\* points by the provider, and both have written
C8_Witness ==
    /\ req["r1"].pc \in {"districts", "officials", "done"}
    /\ req["r2"].pc \in {"districts", "officials", "done"}
    /\ ~req["r1"].hit /\ ~req["r2"].hit
    /\ req["r1"].provider = "location" /\ req["r2"].provider = "location"
    /\ Lower(req["r1"].address) = Lower(req["r2"].address)
    /\ req["r1"].address # req["r2"].address
    /\ req["r1"].location # req["r2"].location
    /\ Cardinality(RowsOf(Lower(req["r1"].address))) = 1

-----------------------------------------------------------------------------
(* Properties of the bulk lookup *)

\* results so far: one item per address handled, in input order, each with
\* exactly one of result and error
BulkAligned(b) ==
    /\ b.pc \in {"loop", "await"} => Len(b.results) = b.i - 1
    /\ (b.pc = "done" /\ Len(b.addresses) <= MAX_ADDRESSES) =>
          (b.status = 200 /\ Len(b.results) = Len(b.addresses))
    /\ \A k \in 1..Len(b.results) :
          /\ b.results[k].address = b.addresses[k]
          /\ b.results[k].result.null # b.results[k].error.null
          /\ ~b.results[k].result.null =>
                b.results[k].result.address = b.addresses[k]

\* C3: a bulk lookup over n <= 100 addresses answers with exactly n items in
\* input order, item i carrying address i and exactly one of a result and an
\* error; a lookup that fails, in whatever way, is recorded as the error of
\* its own item, the loop goes on, and the items already recorded stay as
\* they are.
C3_BulkIsolation ==
    [][ /\ BulkAligned(bulk')
        /\ bulk'.pc # "idle" =>
              /\ Len(bulk'.results) >= Len(bulk.results)
              /\ \A k \in 1..Len(bulk.results) : bulk'.results[k] = bulk.results[k]
        /\ (bulk.pc = "await" /\ bulk'.pc # "await") =>
              LET q == req[BulkSlot]
                  item == bulk'.results[Len(bulk'.results)]
              IN  /\ Len(bulk'.results) = Len(bulk.results) + 1
                  /\ q.status = 200 <=> item.error.null
                  /\ q.status # 200 => item.error.text = q.detail
                  /\ q.status = 200 =>
                        /\ item.result.districts = q.result_districts
                        /\ item.result.officials = q.result_officials ]_vars

\* a finished batch of two addresses: the first lookup raised an exception
\* that is no HTTPException, the second succeeded
C3_Witness ==
    /\ bulk.pc = "done" /\ bulk.status = 200
    /\ Len(bulk.results) = 2
    /\ ~bulk.results[1].error.null
    /\ bulk.results[1].error.text = "Invalid address"
    /\ bulk.results[2].error.null
    /\ bulk.results[2].result.districts # {}

\* C4: a bulk lookup with more than 100 addresses is refused at once: no
\* lookup is started for any address, the address cache is not written and no
\* per-item result is produced.
C4_TooManyAddresses ==
    [][ Len(bulk'.addresses) > MAX_ADDRESSES =>
          /\ bulk'.pc = "done" /\ bulk'.status = 422
          /\ bulk'.results = <<>>
          /\ req'[BulkSlot].pc = "idle"
          /\ address_cache' = address_cache ]_vars

\* a refused request of 101 addresses
C4_Witness ==
    /\ bulk.pc = "done" /\ bulk.status = 422
    /\ Len(bulk.addresses) = MAX_ADDRESSES + 1

\* a batch of exactly 100 addresses has been answered in full
C4_AtLimit ==
    /\ bulk.pc = "done" /\ bulk.status = 200
    /\ Len(bulk.results) = MAX_ADDRESSES

-----------------------------------------------------------------------------
(* Properties of the synchronisation run *)

\* the status row of 'full_sync', if there is one
FullSyncRows == { row \in data_sources : row.source_name = "full_sync" }

\* C9: in a run whose fetch and merge phases raise nothing, the first status
\* write sets 'full_sync' to running with the current time, before any fetch
\* or merge; the last status write sets it to success with last_sync set to
\* the time of that write; success is written only after the district merge
\* and the official merge of the run have completed.
C9_SuccessfulRun ==
    [][ LET a == sync["s1"]
            b == sync'["s1"]
        IN  /\ (a.pc = "mark_running" /\ b.pc # "mark_running") =>
                  /\ a.log = <<>> /\ b.log = <<"running">>
                  /\ \E row \in FullSyncRows' :
                        row.status = "running" /\ row.last_sync = now
            /\ b.log # <<>> => b.log[1] = "running"
            /\ ("success" \in Events(b.log) /\ "success" \notin Events(a.log)) =>
                  /\ a.log = <<"running", "fetch_openstates", "fetch_census",
                               "update_districts", "update_officials">>
                  /\ \A row \in FullSyncRows' :
                        row.status = "success" /\ row.last_sync = now
                  /\ FullSyncRows' # {}
            /\ (b.pc = "returned" /\ b.exc = "" /\ b.runs > 0) =>
                  /\ b.log[Len(b.log)] = "success"
                  /\ "error" \notin Events(b.log)
                  /\ \A row \in FullSyncRows' : row.status = "success" ]_vars

\* a run has merged a district and an official and returned; its success
\* write came on a later day than its running write
C9_Witness ==
    /\ sync["s1"].pc = "returned" /\ sync["s1"].exc = ""
    /\ "success" \in Events(sync["s1"].log)
    /\ \E row \in FullSyncRows :
          row.status = "success" /\ row.last_sync > sync["s1"].running_at
    /\ Cardinality(districts) > Cardinality(InitDistricts)
    /\ Cardinality(officials) > Cardinality(InitOfficials)

\* C10: a run in which the fetch or the merge phase raised an exception ends
\* with the row of 'full_sync' in status error and error_message equal to the
\* exception's message; the error write is the run's last status write and
\* the run writes no success.
C10_FailedRun ==
    LET a == sync["s1"]
    IN  (a.pc \in {"finally", "returned"} /\ a.exc # ""
            /\ a.log # <<>> /\ a.log[1] = "running") =>
            /\ a.log[Len(a.log)] = "error"
            /\ "success" \notin Events(a.log)
            /\ FullSyncRows # {}
            /\ \A row \in FullSyncRows :
                  row.status = "error" /\ row.error_message = a.exc

\* the second run of an instance failed in its official merge, after the
\* district merge of that run had changed the districts; the row shows it
C10_Witness ==
    /\ sync["s1"].pc = "returned" /\ sync["s1"].runs = 2
    /\ sync["s1"].exc = "violates foreign key constraint"
    /\ Events(sync["s1"].log) = {"running", "fetch_openstates", "fetch_census",
                                 "update_districts", "error"}
    /\ \E row \in FullSyncRows : row.status = "error" /\ row.last_sync > 0
    /\ districts # InitDistricts

\* C11: in every reachable state the row of a source has an error_message
\* if and only if its status is error; a run that starts or succeeds after a
\* failed run leaves no error_message.
C11_ErrorMessageIffError ==
    \A row \in data_sources :
        (row.error_message # NULL /\ row.error_message # "") <=> row.status = "error"

\* a fetcher of the run failed: the officials source answered with an error
\* status, a transport error or a missing configuration, or the districts
\* source handed over no list
FetchFailed(a) ==
    \/ a.openstates_outcome \in {"http_error", "client_error", "config_error"}
    \/ ("fetch_census" \in Events(a.log) /\ a.census_data.none)

\* the merge refused one of the records it was given
MergeRejected(a) ==
    a.exc \in {"invalid GeoJSON representation", "violates foreign key constraint"}

\* the records of the lists that were fetched are in the store
FetchedMerged(a) ==
    /\ \A k \in 1..Len(a.census_data.list) :
          \E d \in districts : /\ d.district_code = a.census_data.list[k].code
                                /\ d.name = a.census_data.list[k].name
    /\ \A k \in 1..Len(a.openstates_data.list) :
          \E o \in officials : /\ o.source_type = a.openstates_data.list[k].source
                                /\ o.source_id = a.openstates_data.list[k].source_id

\* C12: a run in which one fetcher failed and the merge refused none of the
\* records of the other ends with status success and with the records of the
\* healthy source merged; a fetch failure alone never gives status error.
C12_PartialFailureIsolation ==
    LET a == sync["s1"]
    IN  (a.pc = "returned" /\ FetchFailed(a) /\ ~MergeRejected(a)) =>
            /\ FullSyncRows # {}
            /\ \A row \in FullSyncRows : row.status = "success"
            /\ FetchedMerged(a)

\* a run has returned with status success: the officials source answered with
\* an error status and the districts of the other source are merged
C12_DegradedSuccess ==
    LET a == sync["s1"]
    IN  /\ a.pc = "returned" /\ a.openstates_outcome = "http_error"
        /\ Len(a.census_data.list) > 0 /\ FetchedMerged(a)
        /\ \A row \in FullSyncRows : row.status = "success"
        /\ districts # InitDistricts

\* C13: each fetcher of the run, whether the provider answered with success,
\* with another status or with a transport error, returns a list and raises
\* nothing, so that each merge is handed a list.
C13_FetchersReturnLists ==
    LET a == sync["s1"]
    IN  /\ a.openstates_outcome \in {"json", "http_error", "client_error"} =>
              /\ ~a.openstates_data.none
              /\ "fetch_openstates" \in Events(a.log)
        /\ "fetch_census" \in Events(a.log) => ~a.census_data.none

\* the stored district that carries the values of a fetched record
DistrictMerged(rec) ==
    \E d \in districts : /\ d.district_code = rec.code
                          /\ d.name = rec.name
                          /\ d.boundary = rec.geometry.shape

\* the stored official that carries the values of a fetched record
OfficialMerged(rec) ==
    \E o \in officials : /\ o.source_type = rec.source /\ o.source_id = rec.source_id
                          /\ o.full_name = rec.name /\ o.office_title = rec.title

\* the official merge refuses the record: it is new and its district is missing
OfficialRefused(rec) ==
    /\ ~\E o \in officials : o.source_type = rec.source /\ o.source_id = rec.source_id
    /\ ~\E d \in districts : d.id = rec.district_id

\* C14: a failed run rolls nothing back: after a run has ended in status
\* error on a record its merge refused, every district and every official
\* upserted before that record is in the store with the merged values.
C14_NoRollback ==
    LET a == sync["s1"]
        cs == a.census_data.list
        os == a.openstates_data.list
    IN  (a.pc \in {"finally", "returned"} /\ MergeRejected(a)) =>
            /\ \A row \in FullSyncRows : row.status = "error"
            /\ \A k \in 1..Len(cs) :
                  (\A j \in 1..k : cs[j].geometry.valid) => DistrictMerged(cs[k])
            /\ a.exc = "violates foreign key constraint" =>
                  \A k \in 1..Len(os) :
                     (\A j \in 1..k : ~OfficialRefused(os[j])) => OfficialMerged(os[k])

\* a run has ended in error on the second district record; the county of the
\* first record is in the store
C14_Witness ==
    LET a == sync["s1"]
    IN  /\ a.pc = "returned" /\ a.exc = "invalid GeoJSON representation"
        /\ Len(a.census_data.list) = 2
        /\ a.census_data.list[1].geometry.valid
        /\ ~a.census_data.list[2].geometry.valid
        /\ DistrictMerged(a.census_data.list[1])
        /\ Cardinality(districts) > Cardinality(InitDistricts)
        /\ \E row \in FullSyncRows : row.status = "error"

\* the natural key of a district row and of a fetched district record
RowKey(d) == <<d.district_type, d.state_fips, d.district_code>>
RecordKey(rec) == <<rec.type, rec.state, rec.code>>

\* the last record of a list with the natural key of record k
LastWithKey(cs, k) ==
    cs[CHOOSE j \in k..Len(cs) :
          /\ RecordKey(cs[j]) = RecordKey(cs[k])
          /\ \A i \in (j + 1)..Len(cs) : RecordKey(cs[i]) # RecordKey(cs[k])]

\* C15: after the district merge of a list, the store holds one district per
\* natural key (district_type, state_fips, district_code) with the name and
\* boundary of the last merged record of that key; a record that shares only
\* the district_code of a stored district leaves that district as it was.
C15_NaturalKeyUpsert ==
    LET a == sync["s1"]
        cs == a.census_data.list
    IN  "update_districts" \in Events(a.log) =>
            /\ \A d1 \in districts, d2 \in districts :
                  RowKey(d1) = RowKey(d2) => d1 = d2
            /\ \A k \in 1..Len(cs) :
                  \E d \in districts :
                      /\ RowKey(d) = RecordKey(cs[k])
                      /\ d.name = LastWithKey(cs, k).name
                      /\ d.boundary = LastWithKey(cs, k).geometry.shape
            /\ a.runs = 1 =>
                  \A d \in InitDistricts :
                      (\A k \in 1..Len(cs) : RecordKey(cs[k]) # RowKey(d))
                          => d \in districts

\* the key of an official row and of a fetched official record
OfficialKey(o) == <<o.source_type, o.source_id>>
SourceKey(rec) == <<rec.source, rec.source_id>>

\* the last record of a list with the key of record k
LastWithSourceKey(os, k) ==
    os[CHOOSE j \in k..Len(os) :
          /\ SourceKey(os[j]) = SourceKey(os[k])
          /\ \A i \in (j + 1)..Len(os) : SourceKey(os[i]) # SourceKey(os[k])]

\* C16: the store holds at most one official per (source_type, source_id);
\* only the official merge changes the officials, and after it the row of
\* every merged key carries the name, title, party, email, phone and website
\* of the last merged record of that key, the rows of other keys being as
\* they were.
C16_OfficialUpsert ==
    [][ LET a == sync["s1"]
            b == sync'["s1"]
            os == a.openstates_data.list
        IN  /\ \A o1 \in officials', o2 \in officials' :
                  OfficialKey(o1) = OfficialKey(o2) => o1 = o2
            /\ officials' # officials => a.pc = "update_officials"
            /\ (a.pc = "update_officials" /\ b.pc = "mark_success") =>
                  /\ \A k \in 1..Len(os) :
                        LET rec == LastWithSourceKey(os, k)
                        IN  \E o \in officials' :
                              /\ OfficialKey(o) = SourceKey(os[k])
                              /\ o.full_name = rec.name
                              /\ o.office_title = rec.title
                              /\ o.party = rec.party /\ o.email = rec.email
                              /\ o.phone = rec.phone /\ o.website = rec.website
                  /\ \A o \in officials :
                        (\A k \in 1..Len(os) : SourceKey(os[k]) # OfficialKey(o))
                            => o \in officials' ]_vars

\* an official merge has renamed the stored official of key 1 and added the
\* official of key 7; the official of key 2 is as before
C16_Witness ==
    /\ sync["s1"].pc = "mark_success"
    /\ Len(sync["s1"].openstates_data.list) = 2
    /\ Cardinality(officials) = Cardinality(InitOfficials) + 1
    /\ \E o \in officials : o.source_id = "1" /\ o.full_name = "John Doe Jr"
                                /\ o.id = 1
    /\ \E o \in officials : o.source_id = "7" /\ o.full_name = "Ann Lee"
    /\ \E o \in officials : o.source_id = "2" /\ o \in InitOfficials

C18_ForeignKey ==
    [][ LET a == sync["s1"]
            b == sync'["s1"]
            os == a.openstates_data.list
        IN  /\ \A o \in officials' : \E d \in districts' : d.id = o.district_id
            /\ (a.pc = "update_officials" /\ b.pc # a.pc) =>
                  \A k \in 1..Len(os) :
                     (~\E d \in districts : d.id = os[k].district_id) =>
                        /\ b.pc = "except"
                        /\ \A o \in officials' :
                              OfficialKey(o) = SourceKey(os[k]) => o \in officials
                        /\ \A o \in officials :
                              OfficialKey(o) = SourceKey(os[k]) => o \in officials'
      ]_vars

\* every stored official references a stored district, in every state
C18_NoOrphan ==
    \A o \in officials : \E d \in districts : d.id = o.district_id

\* a run has ended in error on a new official whose district is missing;
\* no row was made for it
C18_Refused ==
    LET a == sync["s1"]
    IN  /\ a.pc = "returned" /\ a.exc = "violates foreign key constraint"
        /\ \E k \in 1..Len(a.openstates_data.list) :
              /\ OfficialRefused(a.openstates_data.list[k])
              /\ a.openstates_data.list[k].source_id = "7"

\* C19: a run that failed at any of its steps, in a first or a later run of
\* the instance, returns to its caller without an exception and leaves the
\* row of 'full_sync' in status error with the message of the failure.
C19_FailureRecorded ==
    LET a == sync["s1"]
    IN  (a.pc = "returned" /\ a.exc # "") =>
            /\ ~a.escaped
            /\ FullSyncRows # {}
            /\ \A row \in FullSyncRows :
                  row.status = "error" /\ row.error_message = a.exc

\* the second run of an instance could not connect: the error write was
\* tried on the pool the first run had closed, and the exception of that
\* write left sync_all
C19_Escaped ==
    /\ sync["s1"].pc = "returned" /\ sync["s1"].runs = 2
    /\ sync["s1"].exc = "connection refused"
    /\ sync["s1"].escaped

\* the run is between its running write and its last status write
InFetchOrMerge(a) ==
    a.pc \in {"fetch_openstates", "fetch_census", "update_districts",
              "update_officials"}

\* C20: under any interleaving of two runs, a success or error write finds
\* the row of 'full_sync' in status running, so that no terminal status
\* overwrites another, and the row is in status running whenever a run is in
\* its fetch or merge phase.
C20_SingleFlight ==
    [][ \A s \in Syncers :
          LET a == sync[s]
              b == sync'[s]
          IN  /\ (Len(b.log) > Len(a.log)
                   /\ b.log[Len(b.log)] \in {"success", "error"}) =>
                    \A row \in FullSyncRows : row.status = "running"
              /\ InFetchOrMerge(b) =>
                    \A row \in FullSyncRows' : row.status = "running" ]_vars

\* C24: in a run the district merge starts after both fetches and the
\* official merge starts after the district merge has ended: at the official
\* merge every district record of the run is stored, so that an official
\* whose district the same run delivered is stored and not refused.
C24_DistrictsBeforeOfficials ==
    [][ LET a == sync["s1"]
            b == sync'["s1"]
            cs == a.census_data.list
            os == a.openstates_data.list
        IN  /\ districts' # districts => a.pc = "update_districts"
            /\ officials' # officials => a.pc = "update_officials"
            /\ (a.pc = "update_districts" /\ b.pc # a.pc) =>
                  a.log = <<"running", "fetch_openstates", "fetch_census">>
            /\ (a.pc = "update_officials" /\ b.pc # a.pc) =>
                  /\ a.log = <<"running", "fetch_openstates", "fetch_census",
                               "update_districts">>
                  /\ \A k \in 1..Len(cs) : DistrictMerged(cs[k])
                  /\ (\A k \in 1..Len(os) :
                         \E d \in districts : d.id = os[k].district_id) =>
                        /\ b.pc = "mark_success"
                        /\ \A k \in 1..Len(os) :
                              \E o \in officials' : OfficialKey(o) = SourceKey(os[k])
      ]_vars

\* a first run was given the county and the commissioner of that county:
\* the commissioner is stored and references the county's row
C24_Witness ==
    LET a == sync["s1"]
    IN  /\ a.runs = 1 /\ a.pc = "mark_success"
        /\ \E k \in 1..Len(a.census_data.list) :
              a.census_data.list[k].code = "C-031"
        /\ \E k \in 1..Len(a.openstates_data.list) :
              a.openstates_data.list[k].source_id = "7"
        /\ \E o \in officials, d \in districts :
              /\ o.source_id = "7" /\ o.district_id = d.id
              /\ d.district_code = "C-031" /\ d \notin InitDistricts

-----------------------------------------------------------------------------
(* Properties of the connection pool *)

\* the request waits in an acquire()
Waiting(c) == pool[c].pc \in {"acquire", "lookup_acquire"}

\* C21: in no reachable state is every connection of the pool held by a
\* request that itself waits to acquire another connection, so that
\* concurrent lookups and bulk lookups all complete.
C21_NoPoolDeadlock ==
    ~ /\ InUse = PoolSize
      /\ \A c \in PoolClients : pool[c].held > 0 => Waiting(c)

-----------------------------------------------------------------------------
(* Properties of the read endpoints *)

\* C22: no step of a lookup, a bulk lookup, a districts-by-point request or
\* an official-detail request changes the districts, the officials or the
\* sync status; a lookup that hit the cache leaves the cache as it was in
\* every one of its steps; the cache changes only in the write of a lookup
\* that missed and was given a point by the provider.
C22_ReadOnly ==
    [][ /\ districts' = districts
        /\ officials' = officials
        /\ data_sources' = data_sources
        /\ \A r \in Slots :
              (req'[r].hit /\ req'[r] # req[r]) => address_cache' = address_cache
        /\ address_cache' # address_cache =>
              \E r \in Slots :
                  /\ req[r].pc = "insert" /\ req'[r].pc = "districts"
                  /\ ~req[r].hit /\ req[r].called
                  /\ req[r].provider = "location"
                  /\ \A row \in address_cache' :
                        row.normalized_address # Lower(req[r].address)
                           => row \in address_cache ]_vars

\* a lookup answered from the cache on a later day than the entry was
\* written has finished; the entry still expires 30 days after its write
C22_Witness ==
    /\ req["r1"].pc = "done" /\ req["r1"].status = 200
    /\ req["r1"].hit /\ ~req["r1"].called
    /\ lastWrite[Lower(req["r1"].address)].at < now
    /\ \E row \in RowsOf(Lower(req["r1"].address)) :
          row.expires_at = lastWrite[Lower(req["r1"].address)].at + CACHE_TTL_DAYS

\* an official-detail request has been answered with the official's offices
C22_DetailAnswered ==
    /\ req["r2"].pc = "done" /\ req["r2"].status = 200
    /\ req["r2"].result_officials # {} /\ req["r2"].found # {}

\* C23: a lookup that was given a point by the provider and then found no
\* district for it leaves its cache entry written; a later lookup of the
\* address that reads the cache before the entry expires takes the cached
\* point, does not call the provider, and ends with 404 "No districts
\* found" as well, the stored districts being the same.
C23_NoDistrictsCached ==
    [][ \A r \in Requests :
          LET n == Lower(req[r].address)
              w == lastWrite[n]
          IN  /\ (req[r].pc = "districts" /\ ~req[r].hit /\ req'[r].pc = "done"
                     /\ req'[r].status = 404) =>
                    \E row \in address_cache' :
                        /\ row.normalized_address = n
                        /\ row.location = req[r].location
                        /\ row.expires_at = w.at + CACHE_TTL_DAYS
              /\ (ReadsCache(r) /\ w.written /\ now < w.at + CACHE_TTL_DAYS
                     /\ Containing(w.location) = {}) =>
                    /\ req'[r].hit /\ ~req'[r].called
                    /\ req'[r].pc = "districts"
                    /\ req'[r].location = w.location
              /\ (req[r].pc = "districts" /\ req[r].hit /\ req'[r] # req[r]
                     /\ Containing(req[r].location) = {}) =>
                    /\ req'[r].pc = "done" /\ req'[r].status = 404
                    /\ req'[r].detail = "No districts found for this address"
                    /\ ~req'[r].called
                    /\ address_cache' = address_cache ]_vars

\* a lookup on a later day than the write of its address's entry, whose
\* point lies in no district, has ended with 404 from the cache
C23_Witness ==
    /\ req["r1"].pc = "done" /\ req["r1"].status = 404
    /\ req["r1"].detail = "No districts found for this address"
    /\ req["r1"].hit /\ ~req["r1"].called
    /\ lastWrite[Lower(req["r1"].address)].written
    /\ lastWrite[Lower(req["r1"].address)].at < now
    /\ req["r1"].location = lastWrite[Lower(req["r1"].address)].location

====
